---- MODULE Spec2Model ----
(***************************************************************************)
(* Model of lumphrey/video-utils: the direct command line tool             *)
(* (video_utils.py, main) and the configuration driven tool                *)
(* (utils/concat.py, main / process_config), both thin pipelines over the  *)
(* external ffmpeg / ffprobe binaries.                                     *)
(*                                                                         *)
(* File names are sequences of one-character strings, so that splitext,    *)
(* the discovery regular expression and the derived names are computed,    *)
(* not assumed.  A Python value that may be None is a sequence of length   *)
(* at most one (<<>> is None), as argparse's nargs=1 lists are.            *)
(***************************************************************************)
EXTENDS Integers, Sequences, FiniteSets, TLC

(***************************************************************************)
(* Bounds of the model.                                                    *)
(***************************************************************************)
MaxListing == 2      \* directory entries in a listing
MaxEntries == 3      \* entries of concat_config.yml
MaxExitCode == 1     \* exit codes of an external tool are 0..MaxExitCode
MaxNameLen == 4      \* length of the names FileInfo is applied to alone

(***************************************************************************)
(* Names.                                                                  *)
(***************************************************************************)
JoinTxt == <<"j","o","i","n",".","t","x","t">>
OutputMp4 == <<"o","u","t","p","u","t",".","m","p","4">>
OutputTrimmedMp4 ==
    <<"o","u","t","p","u","t","_","t","r","i","m","m","e","d",".","m","p","4">>
ConcatConfigYml == <<"c","o","n","c","a","t","_","c","o","n","f","i","g",".","y","m","l">>
ConcatDir == <<"c","o","n","c","a","t">>
ProcessedPrefix == <<"p","r","o","c","e","s","s","e","d","_">>
TrimmedSuffix == <<"_","t","r","i","m","m","e","d",".">>

\* Directory entries the listings are drawn from.
Join1A == <<"j","o","i","n","1","_","_","a",".","m","p","4">>
Join22B == <<"j","o","i","n","2","2","_","_","b",".","m","p","4">>
JoinNoDigits == <<"j","o","i","n","_","_","c",".","m","p","4">>
NotesTxt == <<"n","o","t","e","s",".","t","x","t">>
DirNames == {Join1A, Join22B, JoinNoDigits, NotesTxt}

\* Names a configuration entry may carry.
ClipMp4 == <<"c","l","i","p",".","m","p","4">>
BMkv == <<"b",".","m","k","v">>
ConfigNames == {ClipMp4, BMkv}

Range(s) == {s[i] : i \in 1..Len(s)}

\* All sequences over S of length at most n, without / with repetitions.
SeqsUpTo(S, n) == UNION {[1..k -> S] : k \in 0..n}
InjSeqsUpTo(S, n) ==
    {s \in SeqsUpTo(S, n) : \A i, j \in 1..Len(s) : i # j => s[i] # s[j]}

(***************************************************************************)
(* os.path.splitext (posix): the extension starts at the last dot of the   *)
(* last path component, leading dots of that component not counting; the   *)
(* extension keeps its dot.                                                *)
(***************************************************************************)
RFind(p, c) ==
    LET hits == {i \in 1..Len(p) : p[i] = c}
    IN  IF hits = {} THEN 0 ELSE CHOOSE i \in hits : \A j \in hits : j <= i

splitext(p) ==
    LET sepIndex == RFind(p, "/")
        dotIndex == RFind(p, ".")
    IN  IF dotIndex > sepIndex
           /\ \E k \in (sepIndex + 1)..(dotIndex - 1) : p[k] # "."
        THEN <<SubSeq(p, 1, dotIndex - 1), SubSeq(p, dotIndex, Len(p))>>
        ELSE <<p, <<>>>>

\* FileInfo.__init__
FileInfo(filename, start_ts, end_ts) ==
    [filename |-> filename,
     start_ts |-> start_ts,
     end_ts |-> end_ts,
     filename_without_extension |-> splitext(filename)[1],
     extension |-> splitext(filename)[2],
     is_trimmed |-> FALSE]

\* FileInfo.trimmed_video_filename
trimmed_video_filename(file_info) ==
    file_info.filename_without_extension \o TrimmedSuffix \o file_info.extension

(***************************************************************************)
(* collect_files: re.match of join\d+__.*\.mp4, that is a match from the   *)
(* start of the name, not of the whole name; listing order is kept.        *)
(***************************************************************************)
IsDigit(c) == c \in {"0","1","2","3","4","5","6","7","8","9"}

DigitRunEnd(s, from) ==
    LET ends == {k \in (from - 1)..Len(s) : \A i \in from..k : IsDigit(s[i])}
    IN  CHOOSE k \in ends : \A j \in ends : j <= k

RegexMatch(s) ==
    /\ Len(s) >= 4
    /\ SubSeq(s, 1, 4) = <<"j","o","i","n">>
    /\ LET e == DigitRunEnd(s, 5)
       IN  /\ e >= 5
           /\ Len(s) >= e + 2
           /\ s[e + 1] = "_"
           /\ s[e + 2] = "_"
           /\ \E i \in (e + 3)..(Len(s) - 3) :
                 SubSeq(s, i, i + 3) = <<".","m","p","4">>

collect_files(entries) == SelectSeq(entries, RegexMatch)

(***************************************************************************)
(* Values.                                                                 *)
(***************************************************************************)
\* Text handed to float(): a number, or text float() rejects (ValueError).
Num(n) == [ok |-> TRUE, val |-> n]
NotANumber == [ok |-> FALSE, val |-> 0]

FromTimestamps == {"00:00:10"}
EndTimestamps == {"00:01:00"}
TrimEndTexts == {Num(5), Num(0), NotANumber}
ProbeOutputs == {Num(125), Num(10), NotANumber}
ExitCodes == 0..MaxExitCode

\* A value or None.
Opt(S) == {<<>>} \cup {<<v>> : v \in S}
\* Python truthiness of an optional string.
Truthy(opt) == opt # <<>> /\ opt[1] # ""

CliArgs ==
    [from_ts : Opt(FromTimestamps),
     trim_end_secs : Opt(TrimEndTexts),
     keep_all_files : BOOLEAN]
NoArgs == [from_ts |-> <<>>, trim_end_secs |-> <<>>, keep_all_files |-> FALSE]

ConfigEntries ==
    [name : ConfigNames, start : Opt(FromTimestamps), end : Opt(EndTimestamps)]

Listings == InjSeqsUpTo(DirNames, MaxListing)
\* concat.main only logs what collect_files returns: one listing without
\* a match, one with, and the empty one stand for all.
CfgListings == InjSeqsUpTo({Join1A, NotesTxt}, 1)
Configs == SeqsUpTo(ConfigEntries, MaxEntries)

(***************************************************************************)
(* State.                                                                  *)
(***************************************************************************)
VARIABLES
    prog,       \* "cli": video_utils.main; "plain", "gen", "cfg": concat.main
                \* with no flag, --generate-config, --use-config
    args,       \* the parsed command line of video_utils.main
    listing,    \* os.listdir('.') when the run starts
    config,     \* config_dict['files'] of concat_config.yml, in document order
    fs,         \* names in the working directory
    files,      \* result of collect_files
    join_txt,   \* lines of join.txt
    pc,         \* position of the run
    running,    \* the external process subprocess.run is waiting for, or None
    calls,      \* the external invocations that have finished, in order
    return_code,
    trim_cmd_return_code,
    duration,   \* float() of ffprobe's output, or None
    trim_cmd,   \* the trim command being built
    renames,    \* the os.rename calls made, as <<from, to>>
    removed,    \* the os.remove calls made
    raised,     \* the exception that ended the run, or None
    exit_code,  \* the exit status of the process, or None while it runs
    idx,        \* index of the configuration entry being processed
    file_info,  \* the FileInfo of that entry, or None
    file_list,  \* process_config's queue
    origin      \* for each queued name, "trimmed" or "original"

vars ==
    <<prog, args, listing, config, fs, files, join_txt, pc, running, calls,
      return_code, trim_cmd_return_code, duration, trim_cmd, renames, removed,
      raised, exit_code, idx, file_info, file_list, origin>>

inputs == <<prog, args, listing, config>>
cliVars ==
    <<return_code, trim_cmd_return_code, duration, trim_cmd, renames, removed>>
cfgVars == <<idx, file_info, file_list, origin>>

InitialFs(p, l) ==
    Range(l) \cup (IF p = "cfg" THEN {ConcatConfigYml} ELSE {})

InitRest ==
    /\ fs = InitialFs(prog, listing)
    /\ files = <<>>
    /\ join_txt = <<>>
    /\ pc = "start"
    /\ running = <<>>
    /\ calls = <<>>
    /\ return_code = <<>>
    /\ trim_cmd_return_code = <<>>
    /\ duration = <<>>
    /\ trim_cmd = <<>>
    /\ renames = {}
    /\ removed = {}
    /\ raised = <<>>
    /\ exit_code = <<>>
    /\ idx = 1
    /\ file_info = <<>>
    /\ file_list = <<>>
    /\ origin = <<>>

Init ==
    /\ prog \in {"cli", "plain", "gen", "cfg"}
    /\ listing \in (IF prog = "cfg" THEN CfgListings ELSE Listings)
    /\ args \in (IF prog = "cli" THEN CliArgs ELSE {NoArgs})
    /\ config \in (IF prog = "cfg" THEN Configs ELSE {<<>>})
    /\ InitRest

(***************************************************************************)
(* External commands.                                                      *)
(***************************************************************************)
Cmd(tool, input, list, ss, to_ts, to_secs, output) ==
    [tool |-> tool, input |-> input, list |-> list, ss |-> ss,
     to_ts |-> to_ts, to_secs |-> to_secs, output |-> output]

\* The ffmpeg -f concat command of both tools; ffmpeg reads the manifest.
ConcatCmd(manifest, output_filename) ==
    Cmd("ffmpeg_concat", JoinTxt, manifest, <<>>, <<>>, <<>>, output_filename)

ProbeCmd == Cmd("ffprobe", OutputMp4, <<>>, <<>>, <<>>, <<>>, <<>>)

\* video_utils.main: trim_cmd before and after the -to arguments are spliced in.
CliTrimCmd(from_ts) ==
    Cmd("ffmpeg_trim", OutputMp4, <<>>, <<from_ts>>, <<>>, <<>>, OutputTrimmedMp4)
CliTrimEnd(cmd, probed, trim_end_secs) ==
    [cmd EXCEPT !.to_secs = <<probed - trim_end_secs>>]

\* do_trim: -ss start_ts always, -to end_ts when end_ts is truthy.
CfgTrimCmd(fi, output_name) ==
    Cmd("ffmpeg_trim", fi.filename, <<>>, fi.start_ts,
        IF Truthy(fi.end_ts) THEN fi.end_ts ELSE <<>>, <<>>, output_name)

\* What an external ffmpeg leaves behind: its output on success, and
\* possibly a partial output on failure.
ToolEffect(dir, cmd, rc, partial) ==
    IF rc = 0 \/ partial THEN dir \cup {cmd.output} ELSE dir

\* The exit codes an external ffmpeg can end with: it cannot succeed on an
\* empty manifest (main's failure branch prints "No files were processed."
\* for that case) nor on an input that does not exist.
CanExit(dir, cmd, rc) ==
    /\ (cmd.tool = "ffmpeg_concat" /\ cmd.list = <<>>) => rc # 0
    /\ (cmd.tool = "ffmpeg_trim" /\ cmd.input = OutputMp4 /\ OutputMp4 \notin dir)
          => rc # 0

Finished(cmd, rc) == [cmd |-> cmd, rc |-> rc]

Abort(exc) ==
    /\ raised' = <<exc>>
    /\ exit_code' = <<1>>
    /\ pc' = "aborted"

Exit0 ==
    /\ raised' = raised
    /\ exit_code' = <<0>>
    /\ pc' = "done"

(***************************************************************************)
(* video_utils.main, the direct command line path.                         *)
(***************************************************************************)
TrimRequested(a) == a.from_ts # <<>>
ProbeRequested(a) == a.trim_end_secs # <<>>
Succeeded_ConcatOnly(rc, trc) == rc = 0
Succeeded(rc, trc) == rc = 0 /\ trc = 0
RemoveOutput(a) == ~a.keep_all_files
Processed(filename) == ProcessedPrefix \o filename

\* collect_files, then join.txt is opened for writing and one line per
\* file is written.
CliCollect ==
    /\ prog = "cli" /\ pc = "start"
    /\ files' = collect_files(listing)
    /\ join_txt' = files'
    /\ fs' = fs \cup {JoinTxt}
    /\ pc' = "concat"
    /\ UNCHANGED <<inputs, running, calls, raised, exit_code, cliVars, cfgVars>>

\* subprocess.run(ffmpeg_cmd) starts ffmpeg and waits for it.
CliConcatStart ==
    /\ prog = "cli" /\ pc = "concat"
    /\ running' = <<ConcatCmd(join_txt, OutputMp4)>>
    /\ pc' = "concat_wait"
    /\ UNCHANGED <<inputs, fs, files, join_txt, calls, raised, exit_code,
                   cliVars, cfgVars>>

\* ffmpeg ends; return_code is kept and the trim command is prepared, or
\* trim_cmd_return_code is set to 0 when --from was not given.
CliConcatFinish ==
    /\ prog = "cli" /\ pc = "concat_wait"
    /\ \E rc \in ExitCodes, partial \in BOOLEAN :
          /\ CanExit(fs, running[1], rc)
          /\ return_code' = <<rc>>
          /\ fs' = ToolEffect(fs, running[1], rc, partial)
          /\ calls' = Append(calls, Finished(running[1], rc))
    /\ running' = <<>>
    /\ IF TrimRequested(args)
       THEN /\ trim_cmd' = <<CliTrimCmd(args.from_ts[1])>>
            /\ trim_cmd_return_code' = trim_cmd_return_code
            /\ pc' = IF ProbeRequested(args) THEN "probe" ELSE "trim"
       ELSE /\ trim_cmd' = trim_cmd
            /\ trim_cmd_return_code' = <<0>>
            /\ pc' = "book"
    /\ UNCHANGED <<inputs, files, join_txt, duration, renames, removed, raised,
                   exit_code, cfgVars>>

\* ffprobe on output.mp4; float() of its output and of --trim-end; the -to
\* arguments are spliced into trim_cmd.  ffprobe prints no duration when
\* output.mp4 does not exist.
CliProbe ==
    /\ prog = "cli" /\ pc = "probe"
    /\ \E out \in ProbeOutputs :
          /\ OutputMp4 \notin fs => ~out.ok
          /\ calls' = Append(calls, Finished(ProbeCmd, IF out.ok THEN 0 ELSE 1))
          /\ IF ~out.ok \/ ~args.trim_end_secs[1].ok
             THEN /\ Abort("ValueError")
                  /\ duration' = IF out.ok THEN <<out.val>> ELSE duration
                  /\ trim_cmd' = trim_cmd
             ELSE /\ duration' = <<out.val>>
                  /\ trim_cmd' =
                        <<CliTrimEnd(trim_cmd[1], out.val, args.trim_end_secs[1].val)>>
                  /\ pc' = "trim"
                  /\ UNCHANGED <<raised, exit_code>>
    /\ UNCHANGED <<inputs, fs, files, join_txt, running, return_code,
                   trim_cmd_return_code, renames, removed, cfgVars>>

\* subprocess.run(trim_cmd) starts ffmpeg and waits for it.
CliTrimStart ==
    /\ prog = "cli" /\ pc = "trim"
    /\ running' = trim_cmd
    /\ pc' = "trim_wait"
    /\ UNCHANGED <<inputs, fs, files, join_txt, calls, raised, exit_code,
                   cliVars, cfgVars>>

\* ffmpeg ends and trim_cmd_return_code is kept.
CliTrimFinish ==
    /\ prog = "cli" /\ pc = "trim_wait"
    /\ \E rc \in ExitCodes, partial \in BOOLEAN :
          /\ CanExit(fs, running[1], rc)
          /\ trim_cmd_return_code' = <<rc>>
          /\ fs' = ToolEffect(fs, running[1], rc, partial)
          /\ calls' = Append(calls, Finished(running[1], rc))
    /\ running' = <<>>
    /\ pc' = "book"
    /\ UNCHANGED <<inputs, files, join_txt, return_code, duration, trim_cmd,
                   renames, removed, raised, exit_code, cfgVars>>

\* The end of main: on success every file is renamed and output.mp4 is
\* removed unless --keep-all-files; otherwise the return code is printed.
CliBookkeep ==
    /\ prog = "cli" /\ pc = "book"
    /\ IF Succeeded(return_code[1], trim_cmd_return_code[1])
       THEN /\ renames' = {<<files[i], Processed(files[i])>> : i \in 1..Len(files)}
            /\ LET renamed == (fs \ Range(files))
                                 \cup {Processed(files[i]) : i \in 1..Len(files)}
               IN  IF RemoveOutput(args)
                   THEN IF OutputMp4 \in renamed
                        THEN /\ removed' = {OutputMp4}
                             /\ fs' = renamed \ {OutputMp4}
                             /\ Exit0
                        ELSE /\ removed' = removed
                             /\ fs' = renamed
                             /\ Abort("FileNotFoundError")
                   ELSE /\ removed' = removed
                        /\ fs' = renamed
                        /\ Exit0
       ELSE /\ UNCHANGED <<renames, removed, fs>>
            /\ Exit0
    /\ UNCHANGED <<inputs, files, join_txt, running, calls, return_code,
                   trim_cmd_return_code, duration, trim_cmd, cfgVars>>

CliNext ==
    \/ CliCollect
    \/ CliConcatStart
    \/ CliConcatFinish
    \/ CliProbe
    \/ CliTrimStart
    \/ CliTrimFinish
    \/ CliBookkeep

(***************************************************************************)
(* utils/concat.py: main and process_config, the configuration path.       *)
(***************************************************************************)
NeedsTrim(fi) == Truthy(fi.start_ts) \/ Truthy(fi.end_ts)
ShouldConcat_AtLeastOne(queue) == Len(queue) >= 1
ShouldConcat(queue) == Len(queue) > 1
\* subprocess.run(..., check=True) in do_trim, check=False in do_concat.
do_trim_raises_unchecked(rc) == FALSE
do_trim_raises(rc) == rc # 0
do_concat_raises_checked(rc) == rc # 0
do_concat_raises(rc) == FALSE
\* subprocess.run rejects an argument list that holds None.
ArgsRejected(cmd) == cmd.ss = <<>>

\* Neither flag: the files are collected and main returns.
MainPlain ==
    /\ prog = "plain" /\ pc = "start"
    /\ files' = collect_files(listing)
    /\ Exit0
    /\ UNCHANGED <<inputs, fs, join_txt, running, calls, cliVars, cfgVars>>

\* --generate-config: concat_config.yml is written, one entry per file.
MainGenerateConfig ==
    /\ prog = "gen" /\ pc = "start"
    /\ files' = collect_files(listing)
    /\ fs' = fs \cup {ConcatConfigYml}
    /\ Exit0
    /\ UNCHANGED <<inputs, join_txt, running, calls, cliVars, cfgVars>>

\* --use-config: the configuration is read, the directory concat is made
\* and process_config starts with an empty file_list.
MainUseConfig ==
    /\ prog = "cfg" /\ pc = "start"
    /\ files' = collect_files(listing)
    /\ fs' = fs \cup {ConcatDir}
    /\ pc' = "cfg_entry"
    /\ UNCHANGED <<inputs, join_txt, running, calls, raised, exit_code,
                   cliVars, cfgVars>>

\* The head of the loop body: the FileInfo is built; an entry with neither
\* bound is queued under its own name.
CfgEntry ==
    /\ prog = "cfg" /\ pc = "cfg_entry" /\ idx <= Len(config)
    /\ LET fi == FileInfo(config[idx].name, config[idx].start, config[idx].end)
       IN  /\ file_info' = <<fi>>
           /\ IF NeedsTrim(fi)
              THEN /\ pc' = "cfg_trim"
                   /\ UNCHANGED <<file_list, origin>>
              ELSE /\ file_list' = Append(file_list, fi.filename)
                   /\ origin' = Append(origin, "original")
                   /\ pc' = "cfg_queued"
    /\ UNCHANGED <<inputs, fs, files, join_txt, running, calls, raised,
                   exit_code, cliVars, idx>>

\* The loop is over: process_config and main return.
CfgFinish ==
    /\ prog = "cfg" /\ pc = "cfg_entry" /\ idx > Len(config)
    /\ Exit0
    /\ UNCHANGED <<inputs, fs, files, join_txt, running, calls, cliVars, cfgVars>>

\* do_trim builds the command and hands it to subprocess.run.
CfgTrimStart ==
    /\ prog = "cfg" /\ pc = "cfg_trim"
    /\ LET cmd == CfgTrimCmd(file_info[1], trimmed_video_filename(file_info[1]))
       IN  IF ArgsRejected(cmd)
           THEN /\ Abort("TypeError")
                /\ running' = running
           ELSE /\ running' = <<cmd>>
                /\ pc' = "cfg_trim_wait"
                /\ UNCHANGED <<raised, exit_code>>
    /\ UNCHANGED <<inputs, fs, files, join_txt, calls, cliVars, cfgVars>>

\* ffmpeg ends: do_trim raises or sets is_trimmed and returns, and
\* process_config queues the trimmed name.  Whether the configured file
\* exists is not tracked: the exit code stands for both cases.
CfgTrimFinish ==
    /\ prog = "cfg" /\ pc = "cfg_trim_wait"
    /\ \E rc \in ExitCodes, partial \in BOOLEAN :
          /\ CanExit(fs, running[1], rc)
          /\ fs' = ToolEffect(fs, running[1], rc, partial)
          /\ calls' = Append(calls, Finished(running[1], rc))
          /\ IF do_trim_raises(rc)
             THEN /\ Abort("CalledProcessError")
                  /\ UNCHANGED <<file_info, file_list, origin>>
             ELSE /\ file_info' = <<[file_info[1] EXCEPT !.is_trimmed = TRUE]>>
                  /\ file_list' =
                        Append(file_list, trimmed_video_filename(file_info[1]))
                  /\ origin' = Append(origin, "trimmed")
                  /\ pc' = "cfg_queued"
                  /\ UNCHANGED <<raised, exit_code>>
    /\ running' = <<>>
    /\ UNCHANGED <<inputs, files, join_txt, cliVars, idx>>

\* More than one name is queued: write_join_file rewrites join.txt.
CfgWriteJoin ==
    /\ prog = "cfg" /\ pc = "cfg_queued" /\ ShouldConcat(file_list)
    /\ join_txt' = file_list
    /\ fs' = fs \cup {JoinTxt}
    /\ pc' = "cfg_concat"
    /\ UNCHANGED <<inputs, files, running, calls, raised, exit_code, cliVars,
                   cfgVars>>

\* Otherwise the loop goes on to the next entry.
CfgSkipConcat ==
    /\ prog = "cfg" /\ pc = "cfg_queued" /\ ~ShouldConcat(file_list)
    /\ idx' = idx + 1
    /\ pc' = "cfg_entry"
    /\ UNCHANGED <<inputs, fs, files, join_txt, running, calls, raised,
                   exit_code, cliVars, file_info, file_list, origin>>

\* do_concat hands the command to subprocess.run.
CfgConcatStart ==
    /\ prog = "cfg" /\ pc = "cfg_concat"
    /\ running' = <<ConcatCmd(join_txt, OutputMp4)>>
    /\ pc' = "cfg_concat_wait"
    /\ UNCHANGED <<inputs, fs, files, join_txt, calls, raised, exit_code,
                   cliVars, cfgVars>>

\* ffmpeg ends; the return code is dropped and the loop goes on.
CfgConcatFinish ==
    /\ prog = "cfg" /\ pc = "cfg_concat_wait"
    /\ \E rc \in ExitCodes, partial \in BOOLEAN :
          /\ CanExit(fs, running[1], rc)
          /\ fs' = ToolEffect(fs, running[1], rc, partial)
          /\ calls' = Append(calls, Finished(running[1], rc))
          /\ IF do_concat_raises(rc)
             THEN /\ Abort("CalledProcessError")
                  /\ idx' = idx
             ELSE /\ idx' = idx + 1
                  /\ pc' = "cfg_entry"
                  /\ UNCHANGED <<raised, exit_code>>
    /\ running' = <<>>
    /\ UNCHANGED <<inputs, files, join_txt, cliVars, file_info, file_list, origin>>

MainNext ==
    \/ MainPlain
    \/ MainGenerateConfig
    \/ MainUseConfig

CfgNext ==
    \/ CfgEntry
    \/ CfgFinish
    \/ CfgTrimStart
    \/ CfgTrimFinish
    \/ CfgWriteJoin
    \/ CfgSkipConcat
    \/ CfgConcatStart
    \/ CfgConcatFinish

Next == CliNext \/ MainNext \/ CfgNext

Spec == Init /\ [][Next]_vars

(***************************************************************************)
(* FileInfo alone: one configured entry with a start bound, its name any   *)
(* short name over a small alphabet.                                       *)
(***************************************************************************)
NameAlphabet == {"a", ".", "/"}
NamingNames == SeqsUpTo(NameAlphabet, MaxNameLen) \ {<<>>}

NamingInit ==
    /\ prog = "cfg"
    /\ listing = <<>>
    /\ args = NoArgs
    /\ config \in {<<[name |-> n, start |-> <<"00:00:10">>, end |-> <<>>]>> :
                      n \in NamingNames}
    /\ InitRest

NamingNext ==
    \/ MainUseConfig
    \/ CfgEntry
    \/ CfgTrimStart
    \/ CfgTrimFinish
    \/ CfgSkipConcat
    \/ CfgFinish

SpecNaming == NamingInit /\ [][NamingNext]_vars

(***************************************************************************)
(* What the claims speak of.                                               *)
(***************************************************************************)
IsConcat(c) == c.cmd.tool = "ffmpeg_concat"
IsTrim(c) == c.cmd.tool = "ffmpeg_trim"
IsProbe(c) == c.cmd.tool = "ffprobe"
ConcatCalls == SelectSeq(calls, IsConcat)
TrimCalls == SelectSeq(calls, IsTrim)
IsGoodTrim(c) == IsTrim(c) /\ c.rc = 0
GoodTrimCalls == SelectSeq(calls, IsGoodTrim)

\* The exit codes of a finished direct run, the trim's taken as 0 when no
\* trim was invoked.
ConcatExit == ConcatCalls[1].rc
TrimExit == IF TrimCalls = <<>> THEN 0 ELSE TrimCalls[1].rc
OverallSuccess == ConcatExit = 0 /\ TrimExit = 0
CliDone == prog = "cli" /\ pc = "done"
Discovered == Range(collect_files(listing))

HasBound(entry) == entry.start # <<>> \/ entry.end # <<>>
\* The name process_config queues for a configuration entry.
QueuedName(entry) ==
    IF HasBound(entry)
    THEN trimmed_video_filename(FileInfo(entry.name, entry.start, entry.end))
    ELSE entry.name

(***************************************************************************)
(* C1: a direct run that ends with both exit codes 0 has renamed every     *)
(* discovered file f to processed_f; a direct run in which either exit     *)
(* code is not 0 has renamed none; no rename is made before the end.       *)
(***************************************************************************)
C1_RenameAllOrNone ==
    prog = "cli" =>
       IF pc = "done" /\ OverallSuccess
       THEN /\ renames = {<<f, ProcessedPrefix \o f>> : f \in Discovered}
            /\ \A f \in Discovered : f \notin fs /\ (ProcessedPrefix \o f) \in fs
       ELSE /\ renames = {}
            /\ Discovered \subseteq fs

C1_Witness ==
    /\ CliDone
    /\ Cardinality(Discovered) = 2
    /\ TrimCalls # <<>>
    /\ OverallSuccess
    /\ Cardinality(renames) = 2

(***************************************************************************)
(* C2: join.txt is gone at the end of a direct run with both exit codes    *)
(* 0 and is still on disk at the end of a direct run with a non-zero one.  *)
(***************************************************************************)
C2_JoinTxtTransient ==
    CliDone => (IF OverallSuccess THEN JoinTxt \notin fs ELSE JoinTxt \in fs)

(***************************************************************************)
(* C3: a direct run deletes output.mp4 exactly when it succeeded, --from   *)
(* was given and --keep-all-files was not.                                 *)
(***************************************************************************)
C3_OutputDeletedIff ==
    CliDone =>
       (OutputMp4 \in removed
          <=> (OverallSuccess /\ args.from_ts # <<>> /\ ~args.keep_all_files))

(***************************************************************************)
(* C4: when no directory entry matches the pattern the run invokes no      *)
(* external tool, creates none of join.txt, output.mp4 and                 *)
(* output_trimmed.mp4, renames and deletes nothing, and ends with exit     *)
(* code 0.                                                                 *)
(***************************************************************************)
C4_NoMatchNoOp ==
    Discovered = {} =>
       /\ calls = <<>> /\ running = <<>>
       /\ fs \cap {JoinTxt, OutputMp4, OutputTrimmedMp4} = {}
       /\ renames = {} /\ removed = {}
       /\ exit_code \in {<<>>, <<0>>}

(***************************************************************************)
(* C5, as claimed: in both paths the end of an ffmpeg concat or trim       *)
(* invocation with a non-zero exit code raises nothing, and the run goes   *)
(* on to end with exit code 0.                                             *)
(***************************************************************************)
FfmpegEnds == running # <<>> /\ running' = <<>>
LastCall == calls'[Len(calls')]

C5_ExitStatusUnchanged ==
    [][/\ (FfmpegEnds /\ LastCall.rc # 0) => (raised' = <<>> /\ exit_code' = <<>>)
       /\ (pc' = "done" => exit_code' = <<0>>)]_vars

(***************************************************************************)
(* C5, amended: the end of a concat invocation (either path) or of the     *)
(* direct path's trim raises nothing whatever the exit code, and a run     *)
(* that reaches its end has exit code 0; the end of a do_trim invocation   *)
(* of the configuration path with a non-zero exit code raises              *)
(* CalledProcessError, which ends the run with a non-zero exit code.       *)
(***************************************************************************)
C5_OnlyDoTrimRaises ==
    [][/\ FfmpegEnds =>
             IF prog = "cfg" /\ IsTrim(LastCall) /\ LastCall.rc # 0
             THEN raised' = <<"CalledProcessError">> /\ exit_code' = <<1>>
             ELSE raised' = <<>> /\ exit_code' = <<>>
       /\ (pc' = "done" => exit_code' = <<0>>)]_vars

C5_Witness ==
    /\ prog = "cfg"
    /\ raised = <<"CalledProcessError">>
    /\ exit_code = <<1>>
    /\ ConcatCalls # <<>>
    /\ ConcatCalls[1].rc # 0

(***************************************************************************)
(* C6: in process_config the queue holds, in configured order, one name    *)
(* per entry processed, the trimmed name for an entry with a bound and     *)
(* the original name otherwise, and an entry with a start bound, an end    *)
(* bound or both has a trim invoked on it: the run is cut short only by a  *)
(* trim that failed.                                                       *)
(***************************************************************************)
C6_EveryEntryQueued ==
    prog = "cfg" =>
       /\ Len(file_list) \in {idx - 1, idx}
       /\ Len(file_list) <= Len(config)
       /\ \A k \in 1..Len(file_list) : file_list[k] = QueuedName(config[k])
       /\ pc = "aborted" =>
             /\ calls # <<>>
             /\ IsTrim(calls[Len(calls)])
             /\ calls[Len(calls)].rc # 0
             /\ calls[Len(calls)].cmd.input = config[idx].name

(***************************************************************************)
(* C7: a direct run given --trim-end s, its concat having ended with      *)
(* exit code 0, probes the duration d of output.mp4 and invokes a trim    *)
(* whose end position is d - s, with or without --from.                    *)
(***************************************************************************)
C7_TrimEndHonoured ==
    (CliDone /\ ConcatExit = 0 /\ args.trim_end_secs # <<>>
        /\ args.trim_end_secs[1].ok) =>
       /\ \E i \in 1..Len(calls) : IsProbe(calls[i])
       /\ duration # <<>>
       /\ \E i \in 1..Len(calls) :
             /\ IsTrim(calls[i])
             /\ calls[i].cmd.to_secs = <<duration[1] - args.trim_end_secs[1].val>>

(***************************************************************************)
(* C8: for a name stem.ext the trimmed name handed to the trim is          *)
(* stem_trimmed.ext, with one dot before the extension, and splits again   *)
(* into stem_trimmed and the extension.                                    *)
(***************************************************************************)
Underscore_trimmed == <<"_","t","r","i","m","m","e","d">>

C8_TrimmedName ==
    (prog = "cfg" /\ running # <<>> /\ running[1].tool = "ffmpeg_trim") =>
       LET stem == splitext(running[1].input)[1]
           ext == splitext(running[1].input)[2]
       IN  Len(ext) >= 2 =>
              /\ running[1].output = stem \o Underscore_trimmed \o ext
              /\ splitext(running[1].output) = <<stem \o Underscore_trimmed, ext>>

(***************************************************************************)
(* C9: in process_config the i-th concat invocation reads a manifest that  *)
(* lists the first i+1 queued names, a run over n entries that reaches     *)
(* its end has made max(0, n-1) concat invocations, and this whatever the  *)
(* exit codes of those invocations.                                        *)
(***************************************************************************)
C9_ConcatPerQueuedBeyondFirst ==
    prog = "cfg" =>
       /\ \A i \in 1..Len(ConcatCalls) :
             /\ i + 1 <= Len(file_list)
             /\ ConcatCalls[i].cmd.list = SubSeq(file_list, 1, i + 1)
             /\ \A k \in 1..(i + 1) :
                   ConcatCalls[i].cmd.list[k] = QueuedName(config[k])
       /\ pc = "done" =>
             /\ Len(file_list) = Len(config)
             /\ Len(ConcatCalls) = (IF Len(config) = 0 THEN 0 ELSE Len(config) - 1)

C9_Witness ==
    /\ prog = "cfg" /\ pc = "done"
    /\ Len(config) = 3
    /\ Len(ConcatCalls) = 2
    /\ ConcatCalls[1].rc # 0
    /\ ConcatCalls[2].rc = 0

(***************************************************************************)
(* C10: while a concat of process_config runs, join.txt holds the current  *)
(* queue and is what the concat reads; the trimmed names in the queue and  *)
(* in join.txt are, in order, the outputs of the trims that ended with     *)
(* exit code 0, at most the last trim having failed; in the direct path   *)
(* a trim runs only after the concat ended.                                *)
(***************************************************************************)
TrimmedQueued ==
    LET at == {k \in 1..Len(file_list) : origin[k] = "trimmed"}
    IN  [k \in at |-> file_list[k]]
NthTrimmed(n) ==
    CHOOSE k \in DOMAIN TrimmedQueued :
       Cardinality({j \in DOMAIN TrimmedQueued : j <= k}) = n

C10_SequentialDependency ==
    /\ prog = "cfg" =>
          /\ Len(origin) = Len(file_list)
          /\ Cardinality(DOMAIN TrimmedQueued) = Len(GoodTrimCalls)
          /\ Len(TrimCalls) - Len(GoodTrimCalls) \in {0, 1}
          /\ \A n \in 1..Len(GoodTrimCalls) :
                /\ TrimmedQueued[NthTrimmed(n)] = GoodTrimCalls[n].cmd.output
                /\ GoodTrimCalls[n].cmd.output \in fs
          /\ Len(join_txt) <= Len(file_list)
          /\ join_txt = SubSeq(file_list, 1, Len(join_txt))
          /\ (running # <<>> /\ running[1].tool = "ffmpeg_concat") =>
                /\ JoinTxt \in fs
                /\ join_txt = file_list
                /\ running[1].list = file_list
    /\ (prog = "cli" /\ running # <<>> /\ running[1].tool = "ffmpeg_trim") =>
          /\ Len(calls) >= 1
          /\ IsConcat(calls[1])
          /\ return_code = <<calls[1].rc>>

C10_Witness ==
    /\ prog = "cfg"
    /\ running # <<>> /\ running[1].tool = "ffmpeg_concat"
    /\ Len(file_list) = 3
    /\ origin = <<"trimmed", "original", "trimmed">>

====
